---------------------------- MODULE Spec2Model ----------------------------
(***************************************************************************)
(* Model of book_dashboard.py: the SQLite table `books` with its three     *)
(* writers (add_book_db, update_book_db, delete_book_db) and its reader     *)
(* fetch_books_df, and what a run of the script computes from the frame it  *)
(* reads: the filtered table, the totals, the pie chart's distribution and  *)
(* the CSV export.                                                          *)
(*                                                                         *)
(* cost and price are SQLite REAL / pandas float64 columns.  They are       *)
(* modelled as IEEE-754 binary64 numbers with round-to-nearest-even        *)
(* arithmetic: a value is a sign and a magnitude, the magnitude a natural   *)
(* number of units of 2^-FracBits.                                          *)
(***************************************************************************)
EXTENDS Integers, Sequences, FiniteSets, TLC

(***************************************************************************)
(* Naturals wider than TLC's integers: little-endian sequences of NLimbs    *)
(* limbs, each below LimbBase.                                              *)
(***************************************************************************)
LimbBits == 20
LimbBase == 2 ^ LimbBits
NLimbs   == 4

BZero == [i \in 1..NLimbs |-> 0] \o << >>

\* 2^k
BOne(k) == [i \in 1..NLimbs |-> IF i - 1 = k \div LimbBits THEN 2 ^ (k % LimbBits) ELSE 0]

\* bit k of A
BBit(A, k) == (A[(k \div LimbBits) + 1] \div (2 ^ (k % LimbBits))) % 2

\* A mod 2^k
BLow(A, k) ==
    [i \in 1..NLimbs |->
        IF i * LimbBits <= k THEN A[i]
        ELSE IF (i - 1) * LimbBits >= k THEN 0
        ELSE A[i] % (2 ^ (k - (i - 1) * LimbBits))]

\* the number of bits of a limb, and of A
IntBitLen(n) == CHOOSE b \in 0..LimbBits : n < 2 ^ b /\ (b = 0 \/ 2 ^ (b - 1) <= n)

BBitLen(A) ==
    IF A = BZero THEN 0
    ELSE LET top == CHOOSE i \in 1..NLimbs : A[i] # 0 /\ \A j \in (i + 1)..NLimbs : A[j] = 0
         IN  (top - 1) * LimbBits + IntBitLen(A[top])

RECURSIVE BAddFrom(_, _, _, _)
BAddFrom(A, B, i, carry) ==
    IF i > NLimbs THEN << >>
    ELSE LET s == A[i] + B[i] + carry
         IN  << s % LimbBase >> \o BAddFrom(A, B, i + 1, s \div LimbBase)

\* A + B
BAdd(A, B) == BAddFrom(A, B, 1, 0)

RECURSIVE BSubFrom(_, _, _, _)
BSubFrom(A, B, i, borrow) ==
    IF i > NLimbs THEN << >>
    ELSE LET s == A[i] - B[i] - borrow
         IN  << s % LimbBase >> \o BSubFrom(A, B, i + 1, IF s < 0 THEN 1 ELSE 0)

\* A - B, for A >= B
BSub(A, B) == BSubFrom(A, B, 1, 0)

\* A < B
BLess(A, B) ==
    \E i \in 1..NLimbs : A[i] < B[i] /\ \A j \in (i + 1)..NLimbs : A[j] = B[j]

RECURSIVE BMulFrom(_, _, _, _)
BMulFrom(A, m, i, carry) ==
    IF i > NLimbs THEN << >>
    ELSE LET s == A[i] * m + carry
         IN  << s % LimbBase >> \o BMulFrom(A, m, i + 1, s \div LimbBase)

\* A * m, for a small m
BMul(A, m) == BMulFrom(A, m, 1, 0)

\* floor(A / d) and A mod d for a small d, by long division from the top limb
RECURSIVE BDivFrom(_, _, _, _)
BDivFrom(A, d, i, rem) ==
    IF i < 1 THEN [q |-> << >>, r |-> rem]
    ELSE LET n    == rem * LimbBase + A[i]
             rest == BDivFrom(A, d, i - 1, n % d)
         IN  [q |-> rest.q \o << n \div d >>, r |-> rest.r]

BDiv(A, d) == BDivFrom(A, d, NLimbs, 0)

\* floor(A / 2^k), known to be small
BHigh(A, k) ==
    LET part(i) == IF i * LimbBits <= k THEN 0
                   ELSE IF (i - 1) * LimbBits >= k THEN A[i] * 2 ^ ((i - 1) * LimbBits - k)
                   ELSE A[i] \div (2 ^ (k - (i - 1) * LimbBits))
        sum[i \in 0..NLimbs] == IF i = 0 THEN 0 ELSE sum[i - 1] + part(i)
    IN  sum[NLimbs]

(***************************************************************************)
(* binary64: the REAL columns of the table and the float64 columns of the   *)
(* data frame.  A value is a sign and a magnitude in units of 2^-FracBits.  *)
(***************************************************************************)
\* significand width of an IEEE-754 double
SigBits == 53

\* the smallest positive amount, 0.01, lies in [2^-7, 2^-6) and has its last
\* significand bit at 2^-(SigBits + 6); two more bits leave a guard bit and a
\* sticky bit to the division by 100
FracBits == SigBits + 8

\* A, plus a nonzero part below its last bit iff sticky, rounded to SigBits
\* significant bits: to nearest, ties to even
RoundSig(A, sticky) ==
    IF BBitLen(A) <= SigBits THEN A
    ELSE LET cut  == BBitLen(A) - SigBits
             rem  == BLow(A, cut)
             kept == BSub(A, rem)
             half == BBit(A, cut - 1) = 1
             low  == sticky \/ BLow(A, cut - 1) # BZero
             up   == half /\ (low \/ BBit(A, cut) = 1)
         IN  IF up THEN BAdd(kept, BOne(cut)) ELSE kept

FZero == [neg |-> FALSE, mag |-> BZero]

FNeg(x) == IF x.mag = BZero THEN x ELSE [neg |-> ~x.neg, mag |-> x.mag]

FAbs(x) == [neg |-> FALSE, mag |-> x.mag]

\* the exact sum of two values, not rounded (-0.0 does not occur: no input is
\* -0.0 and x + (-x) is +0.0 when rounding to nearest)
ExactAdd(x, y) ==
    IF x.neg = y.neg THEN [neg |-> x.neg, mag |-> BAdd(x.mag, y.mag)]
    ELSE IF x.mag = y.mag THEN FZero
    ELSE IF BLess(x.mag, y.mag) THEN [neg |-> y.neg, mag |-> BSub(y.mag, x.mag)]
    ELSE [neg |-> x.neg, mag |-> BSub(x.mag, y.mag)]

\* x + y and x - y in binary64
FAdd(x, y) == LET s == ExactAdd(x, y) IN [neg |-> s.neg, mag |-> RoundSig(s.mag, FALSE)]

FSub(x, y) == FAdd(x, FNeg(y))

\* x < y
FLess(x, y) ==
    IF x.neg # y.neg THEN x.neg
    ELSE IF x.neg THEN BLess(y.mag, x.mag)
    ELSE BLess(x.mag, y.mag)

\* the double nearest to c/100, c a natural number of cents
FromCents(c) ==
    LET d == BDiv(BMul(BOne(FracBits), c), 100)
    IN  [neg |-> FALSE, mag |-> RoundSig(d.q, d.r # 0)]

\* "%.2f" % x: the exact value rounded to a whole number of cents, ties to even;
\* the sign is kept, so a negative value below half a cent prints as -0.00
Format2f(x) ==
    LET h    == BMul(x.mag, 100)
        int  == BHigh(h, FracBits)
        half == BBit(h, FracBits - 1) = 1
        low  == BLow(h, FracBits - 1) # BZero
        up   == half /\ (low \/ int % 2 = 1)
    IN  [neg |-> x.neg, cents |-> IF up THEN int + 1 ELSE int]

\* Series.sum() of a float64 column of fewer than 16 elements, as numpy adds
\* them: in order when there are fewer than 8; otherwise the first 8 in pairs,
\* then the rest in order.  0 for the empty column.
RECURSIVE FSumFrom(_, _, _)
FSumFrom(s, i, acc) == IF i > Len(s) THEN acc ELSE FSumFrom(s, i + 1, FAdd(acc, s[i]))

FSum(s) ==
    IF Len(s) = 0 THEN FZero
    ELSE IF Len(s) < 8 THEN FSumFrom(s, 2, s[1])
    ELSE FSumFrom(s, 9, FAdd(FAdd(FAdd(s[1], s[2]), FAdd(s[3], s[4])),
                             FAdd(FAdd(s[5], s[6]), FAdd(s[7], s[8]))))

(***************************************************************************)
(* Text.  A str is a sequence of one-character strings.                     *)
(***************************************************************************)
IsSpace(ch) == ch = " "

\* str.strip()
RECURSIVE LStrip(_)
LStrip(s) == IF s # << >> /\ IsSpace(Head(s)) THEN LStrip(Tail(s)) ELSE s

RECURSIVE RStrip(_)
RStrip(s) == IF s # << >> /\ IsSpace(s[Len(s)]) THEN RStrip(SubSeq(s, 1, Len(s) - 1)) ELSE s

Strip(s) == RStrip(LStrip(s))

Lower(ch) == CASE ch = "A" -> "a" [] ch = "B" -> "b" [] OTHER -> ch

(***************************************************************************)
(* Bounds and input domains.                                                *)
(***************************************************************************)
\* largest id the table hands out before the model stops adding
MaxId == 2

\* amounts a caller of the store functions can pass
ArgAmounts == { FNeg(FromCents(1)), FromCents(0), FromCents(1) }

\* titles a caller of the store functions can pass: one is blank
ArgTitles == { <<" ">>, <<"a">> }

\* texts typed into the sidebar's search field
Searches == { << >>, <<"a">>, <<"B">>, <<".">> }

\* the options of the sidebar's selectbox "Mostrar"
ProfitModes == { "Todos", "Lucro positivo", "Lucro negativo/zero" }
(***************************************************************************)
(* State.                                                                   *)
(***************************************************************************)
VARIABLES
    books,            \* table books: id -> [title, cost, price]
    sqlite_sequence,  \* AUTOINCREMENT's record of the largest id handed out
    assigned,         \* history: every id ever handed out
    call,             \* the last store call: function, cursor.rowcount, value returned
    search,           \* sidebar text_input "Pesquisar por titulo"
    filter_profit,    \* sidebar selectbox "Mostrar"
    df_filtered,      \* the rows shown in the table
    total_cost, total_price, total_profit,
    labels, vals,     \* the pie chart's slices
    download          \* data of the download button, when the run shows one

page  == << df_filtered, total_cost, total_price, total_profit, labels, vals >>
vars  == << books, sqlite_sequence, assigned, call, search, filter_profit,
            df_filtered, total_cost, total_price, total_profit, labels, vals, download >>

NoCall == [op |-> "none", rowcount |-> -1, ret |-> "None"]

(***************************************************************************)
(* The store.  Each function opens a connection, executes one statement,    *)
(* commits and closes; none returns a value.                                *)
(***************************************************************************)
Ids(tbl) == DOMAIN tbl

MaxRowid(tbl) == IF Ids(tbl) = {} THEN 0 ELSE CHOOSE m \in Ids(tbl) : \A i \in Ids(tbl) : i <= m

\* a plain INTEGER PRIMARY KEY: one more than the largest id now in the table
RowidReuse(tbl, seq) == MaxRowid(tbl) + 1

\* INTEGER PRIMARY KEY AUTOINCREMENT: one more than the largest id ever in the table
NextRowid(tbl, seq) == (IF seq > MaxRowid(tbl) THEN seq ELSE MaxRowid(tbl)) + 1

\* INSERT INTO books (title, cost, price) VALUES (?, ?, ?)
InsertRow(tbl, id, title, cost, price) ==
    [i \in Ids(tbl) \cup {id} |->
        IF i = id THEN [title |-> title, cost |-> cost, price |-> price] ELSE tbl[i]]

\* UPDATE books SET title=?, cost=?, price=? without its WHERE clause
UpdateAllRows(tbl, book_id, title, cost, price) ==
    [i \in Ids(tbl) |-> [title |-> title, cost |-> cost, price |-> price]]

\* UPDATE books SET title=?, cost=?, price=? WHERE id=?
UpdateRows(tbl, book_id, title, cost, price) ==
    [i \in Ids(tbl) |->
        IF i = book_id THEN [title |-> title, cost |-> cost, price |-> price] ELSE tbl[i]]

\* DELETE FROM books WHERE id=?
DeleteRows(tbl, book_id) == [i \in Ids(tbl) \ {book_id} |-> tbl[i]]

\* cursor.rowcount of an UPDATE or DELETE with WHERE id=?
RowCount(tbl, book_id) == IF book_id \in Ids(tbl) THEN 1 ELSE 0

init_db ==
    /\ books = << >>
    /\ sqlite_sequence = 0
    /\ assigned = {}

add_book_db(title, cost, price) ==
    LET id == NextRowid(books, sqlite_sequence) IN
    /\ id <= MaxId
    /\ books' = InsertRow(books, id, title, cost, price)
    /\ sqlite_sequence' = id
    /\ assigned' = assigned \cup {id}
    /\ call' = [op |-> "add_book_db", rowcount |-> 1, ret |-> "None"]

update_book_db(book_id, title, cost, price) ==
    /\ books' = UpdateRows(books, book_id, title, cost, price)
    /\ call' = [op |-> "update_book_db", rowcount |-> RowCount(books, book_id), ret |-> "None"]
    /\ UNCHANGED << sqlite_sequence, assigned >>

delete_book_db(book_id) ==
    /\ books' = DeleteRows(books, book_id)
    /\ call' = [op |-> "delete_book_db", rowcount |-> RowCount(books, book_id), ret |-> "None"]
    /\ UNCHANGED << sqlite_sequence, assigned >>

\* SELECT id, title, cost, price FROM books ORDER BY id ASC
RECURSIVE ReadFrom(_, _)
ReadFrom(tbl, S) ==
    IF S = {} THEN << >>
    ELSE LET m == CHOOSE x \in S : \A y \in S : x <= y
         IN  << [id |-> m, title |-> tbl[m].title, cost |-> tbl[m].cost, price |-> tbl[m].price] >>
             \o ReadFrom(tbl, S \ {m})

ReadTable(tbl) == ReadFrom(tbl, Ids(tbl))

fetch_books_df == ReadTable(books)

(***************************************************************************)
(* What a run of the script computes from the table.                        *)
(***************************************************************************)
\* df['price'] - df['cost'], for one row
Profit(r) == FSub(r.price, r.cost)

\* the columns df['cost'], df['price'] and df['price'] - df['cost']
Costs(df)   == [i \in 1..Len(df) |-> df[i].cost] \o << >>
Prices(df)  == [i \in 1..Len(df) |-> df[i].price] \o << >>
Profits(df) == [i \in 1..Len(df) |-> Profit(df[i])] \o << >>

RawColumns == << "id", "title", "cost", "price" >>

\* the accented column names are written without their accents
DisplayColumns == << "Indice", "ID", "Titulo", "Custo (R$)", "Venda (R$)", "Lucro (R$)" >>

df_with_index_for_display(df) ==
    [columns |-> DisplayColumns,
     rows    |-> [i \in 1..Len(df) |->
                    << i, df[i].id, df[i].title, df[i].cost, df[i].price, Profit(df[i]) >>]
                 \o << >>]

\* DataFrame.to_csv(index=False, float_format="%.2f"), encoded with a byte order
\* mark: the columns of the frame it is given, and one line a row
to_csv_bytes(df) ==
    [bom    |-> TRUE,
     header |-> RawColumns,
     lines  |-> [i \in 1..Len(df) |->
                    << df[i].id, df[i].title, Format2f(df[i].cost), Format2f(df[i].price) >>]
                \o << >>]

\* one character of a pattern against one of the text, re.IGNORECASE: "." is the
\* only metacharacter among the characters of the model
RegexChar(p, ch) == p = "." \/ Lower(p) = Lower(ch)

\* Series.str.contains(pat, case=False, na=False): regex=True is the default, so
\* this is re.search(pat, text, re.IGNORECASE)
str_contains(text, pat) ==
    \E i \in 0..(Len(text) - Len(pat)) : \A j \in 1..Len(pat) : RegexChar(pat[j], text[i + j])

apply_filters(df_orig, text, mode) ==
    LET hit(r)      == str_contains(r.title, text)
        positive(r) == FLess(FZero, Profit(r))
        others(r)   == ~FLess(FZero, Profit(r))
        df2         == IF text # << >> THEN SelectSeq(df_orig, hit) ELSE df_orig
    IN  IF mode = "Todos" THEN df2
        ELSE IF mode = "Lucro positivo" THEN SelectSeq(df2, positive)
        ELSE SelectSeq(df2, others)

\* the pie chart keeps this many books and sums the rest
TopN == 8

\* df.set_index('title')['profit'].abs()
AbsProfits(df) ==
    [i \in 1..Len(df) |-> [title |-> df[i].title, val |-> FAbs(Profit(df[i]))]] \o << >>

RemoveAt(s, i) == SubSeq(s, 1, i - 1) \o SubSeq(s, i + 1, Len(s))

FirstAt(s, e) == CHOOSE i \in 1..Len(s) : s[i] = e /\ \A j \in 1..(i - 1) : s[j] # e

\* Series.sort_values(ascending=False) with the default kind='quicksort', which
\* is not a stable sort: every descending order of the entries is an outcome
RECURSIVE sort_values(_)
sort_values(s) ==
    IF s = << >> THEN { << >> }
    ELSE LET seen == { s[i].val : i \in 1..Len(s) }
             big  == CHOOSE v \in seen : \A w \in seen : ~FLess(v, w)
             top  == { s[i] : i \in { k \in 1..Len(s) : s[k].val = big } }
         IN  UNION { { << e >> \o t : t \in sort_values(RemoveAt(s, FirstAt(s, e))) } : e \in top }

\* labels and values of the pie chart from the sorted series
Slices(prof) ==
    IF Len(prof) > TopN
    THEN [labels |-> [i \in 1..TopN |-> prof[i].title] \o << "Outros" >>,
          vals   |-> [i \in 1..TopN |-> prof[i].val]
                     \o << FSum([i \in 1..(Len(prof) - TopN) |-> prof[TopN + i].val] \o << >>) >>]
    ELSE [labels |-> [i \in 1..Len(prof) |-> prof[i].title] \o << >>,
          vals   |-> [i \in 1..Len(prof) |-> prof[i].val] \o << >>]

NoDownload == [kind |-> "none"]

\* What the body of the script draws, from the read of the table to the charts:
\* df is the frame read from the table, text and mode are the sidebar's search
\* and filter.  One page for every outcome of the sort; an empty table gives
\* totals of 0.0 and an empty figure.
Pages(df, text, mode) ==
    LET shown == apply_filters(df, text, mode)
        tc    == FSum(Costs(df))
        tp    == FSum(Prices(df))
        tpr   == FSum(Profits(df))
    IN  { [df_filtered |-> shown, total_cost |-> tc, total_price |-> tp, total_profit |-> tpr,
           labels |-> Slices(prof).labels, vals |-> Slices(prof).vals] :
          prof \in sort_values(AbsProfits(df)) }

\* the page the run leaves
Render(df, text, mode) == \E pg \in Pages(df, text, mode) :
    /\ df_filtered' = pg.df_filtered
    /\ total_cost' = pg.total_cost
    /\ total_price' = pg.total_price
    /\ total_profit' = pg.total_profit
    /\ labels' = pg.labels
    /\ vals' = pg.vals

\* the page of the script's first run, with the sidebar untouched
FirstPage == \E pg \in Pages(fetch_books_df, << >>, "Todos") :
    /\ search = << >>
    /\ filter_profit = "Todos"
    /\ df_filtered = pg.df_filtered
    /\ total_cost = pg.total_cost
    /\ total_price = pg.total_price
    /\ total_profit = pg.total_profit
    /\ labels = pg.labels
    /\ vals = pg.vals
    /\ download = NoDownload

\* no run of the script
BlankPage ==
    /\ search = << >>
    /\ filter_profit = "Todos"
    /\ df_filtered = << >>
    /\ total_cost = FZero /\ total_price = FZero /\ total_profit = FZero
    /\ labels = << >> /\ vals = << >>
    /\ download = NoDownload

(***************************************************************************)
(* The store called directly, with any arguments, from the empty table      *)
(* init_db() creates.                                                       *)
(***************************************************************************)
Init ==
    /\ init_db
    /\ call = NoCall
    /\ BlankPage

CallAdd == \E title \in ArgTitles, cost \in ArgAmounts, price \in ArgAmounts :
    /\ add_book_db(title, cost, price)
    /\ UNCHANGED << search, filter_profit, page, download >>

CallUpdate == \E book_id \in 1..MaxId, title \in ArgTitles, cost \in ArgAmounts, price \in ArgAmounts :
    /\ update_book_db(book_id, title, cost, price)
    /\ UNCHANGED << search, filter_profit, page, download >>

CallDelete == \E book_id \in 1..MaxId :
    /\ delete_book_db(book_id)
    /\ UNCHANGED << search, filter_profit, page, download >>

Next == CallAdd \/ CallUpdate \/ CallDelete

Spec == Init /\ [][Next]_vars

(***************************************************************************)
(* The page.  The script runs once when the page is opened and once more at  *)
(* every interaction: a run reads the sidebar, handles the button that was   *)
(* clicked and draws the table, the totals and the charts.                  *)
(***************************************************************************)
\* ids handed out before the script starts; any of these books may have been
\* deleted since
MaxRows == 2

\* the books the table can hold: a loss of 0.01, the float64 difference
\* 0.03 - 0.02, a gain of 0.01 and no profit
PageRows ==
    { [title |-> <<"a">>,      cost |-> FromCents(1), price |-> FromCents(0)],
      [title |-> <<"A", "b">>, cost |-> FromCents(2), price |-> FromCents(3)],
      [title |-> <<"b">>,      cost |-> FromCents(0), price |-> FromCents(1)],
      [title |-> <<"B">>,      cost |-> FromCents(1), price |-> FromCents(1)] }

InitPage ==
    /\ \E S \in SUBSET (1..MaxRows) : books \in [S -> PageRows]
    /\ sqlite_sequence = MaxRows
    /\ assigned = 1..MaxRows
    /\ call = NoCall
    /\ FirstPage

\* a run that calls no writer
SameStore == call' = NoCall /\ UNCHANGED << books, sqlite_sequence, assigned >>

\* typing into "Pesquisar por titulo"
SetSearch == \E text \in Searches :
    /\ search' = text
    /\ download' = NoDownload
    /\ SameStore
    /\ UNCHANGED filter_profit
    /\ Render(fetch_books_df, text, filter_profit)

\* choosing in "Mostrar"
SetFilter == \E mode \in ProfitModes :
    /\ filter_profit' = mode
    /\ download' = NoDownload
    /\ SameStore
    /\ UNCHANGED search
    /\ Render(fetch_books_df, search, mode)

\* "Exportar CSV (todos)": a warning on an empty table, else the download button
ExportClick ==
    /\ IF Len(fetch_books_df) = 0
       THEN download' = NoDownload
       ELSE download' = [kind |-> "csv", data |-> to_csv_bytes(fetch_books_df)]
    /\ SameStore
    /\ UNCHANGED << search, filter_profit >>
    /\ Render(fetch_books_df, search, filter_profit)

\* a run with nothing clicked
Reload ==
    /\ download' = NoDownload
    /\ SameStore
    /\ UNCHANGED << search, filter_profit >>
    /\ Render(fetch_books_df, search, filter_profit)

NextPage == SetSearch \/ SetFilter \/ ExportClick \/ Reload

SpecPage == InitPage /\ [][NextPage]_vars

(***************************************************************************)
(* The charts of a table that holds many books when the script starts.      *)
(***************************************************************************)
\* most books in such a table
MaxPieRows == 10

\* the books it can hold: profits 0.02 and -0.01
PieRows ==
    { [title |-> <<"a">>, cost |-> FromCents(0), price |-> FromCents(2)],
      [title |-> <<"b">>, cost |-> FromCents(1), price |-> FromCents(0)] }

InitPie ==
    /\ \E n \in 0..MaxPieRows :
          /\ books \in [1..n -> PieRows]
          /\ sqlite_sequence = n
          /\ assigned = 1..n
    /\ call = NoCall
    /\ FirstPage

NextPie == Reload

SpecPie == InitPie /\ [][NextPie]_vars

(***************************************************************************)
(* Properties of the store, checked under Spec.                             *)
(***************************************************************************)
\* a title that is not empty after trimming and amounts that are not negative
ValidArgs(title, cost, price) == Strip(title) # << >> /\ ~cost.neg /\ ~price.neg

\* the table holds books, and an id handed out earlier is no longer in it
SomeDeleted == books # << >> /\ assigned \ Ids(books) # {}

\* C1: add_book_db with a valid title, cost and price, followed by fetch_books_df,
\* yields the earlier rows unchanged and exactly one new row, which carries the
\* given title, cost and price and an id greater than every id handed out
\* before, those of deleted books included.
AddYieldsOneNewRecord ==
    [][\A title \in ArgTitles, cost \in ArgAmounts, price \in ArgAmounts :
          (ValidArgs(title, cost, price) /\ add_book_db(title, cost, price)) =>
              \E i \in 1..Len(fetch_books_df') :
                  /\ RemoveAt(fetch_books_df', i) = fetch_books_df
                  /\ fetch_books_df'[i].title = title
                  /\ fetch_books_df'[i].cost = cost
                  /\ fetch_books_df'[i].price = price
                  /\ \A a \in assigned : fetch_books_df'[i].id > a]_vars

\* C1 witness: a valid book was added after an earlier book had been deleted.
AddedAfterDelete ==
    /\ call.op = "add_book_db"
    /\ SomeDeleted
    /\ ValidArgs(books[sqlite_sequence].title, books[sqlite_sequence].cost,
                 books[sqlite_sequence].price)

\* update_book_db on an id in the table: that row takes the three values and
\* keeps its id, every other row is as it was, no row appears or disappears
UpdateFrame(book_id, title, cost, price) ==
    /\ Ids(books') = Ids(books)
    /\ books'[book_id] = [title |-> title, cost |-> cost, price |-> price]
    /\ \A i \in Ids(books) \ {book_id} : books'[i] = books[i]

DeleteAgainReportsNotFound ==
    [][\A book_id \in 1..MaxId :
          delete_book_db(book_id) =>
              /\ book_id \in Ids(books) =>
                    /\ Ids(books') = Ids(books) \ {book_id}
                    /\ \A i \in Ids(books') : books'[i] = books[i]
              /\ book_id \in assigned \ Ids(books) =>
                    call'.ret = "NotFound" /\ books' = books]_vars

\* C4: add_book_db with a title that is empty after trimming, or a negative
\* cost or price, fails with ValidationError before any write: the table is
\* the same after the call as before it.
AddRejectsInvalid ==
    [][\A title \in ArgTitles, cost \in ArgAmounts, price \in ArgAmounts :
          (~ValidArgs(title, cost, price) /\ add_book_db(title, cost, price)) =>
              call'.ret = "ValidationError" /\ books' = books]_vars

\* C5: whatever the arguments of the add, update and delete calls, every row of
\* the table has a title that is not empty after trimming, a cost >= 0 and a
\* price >= 0.
PersistedRecordsValid ==
    \A i \in Ids(books) : ValidArgs(books[i].title, books[i].cost, books[i].price)

(***************************************************************************)
(* Properties of the page, checked under SpecPage and SpecPie.              *)
(***************************************************************************)
\* C6: total_cost is the sum of the costs, total_price the sum of the prices,
\* total_profit equals total_price - total_cost, and for an empty table all
\* three are 0.
TotalProfitIsDifference ==
    /\ total_cost = FSum(Costs(fetch_books_df))
    /\ total_price = FSum(Prices(fetch_books_df))
    /\ total_profit = FSub(total_price, total_cost)
    /\ fetch_books_df = << >> =>
          total_cost = FZero /\ total_price = FZero /\ total_profit = FZero

\* text contains pat as a literal substring, letter case ignored
LiteralContains(text, pat) ==
    \E i \in 0..(Len(text) - Len(pat)) : \A j \in 1..Len(pat) : Lower(pat[j]) = Lower(text[i + j])

\* the row passes the search and the profit filter as C7 states them
Kept(r, text, mode) ==
    /\ text = << >> \/ LiteralContains(r.title, text)
    /\ \/ mode = "Todos"
       \/ mode = "Lucro positivo" /\ FLess(FZero, FSub(r.price, r.cost))
       \/ mode = "Lucro negativo/zero" /\ ~FLess(FZero, FSub(r.price, r.cost))

\* C7: the rows shown are, in the table's ascending-id order, exactly the rows
\* whose title contains the search text as a literal case-insensitive substring
\* (or the search text is empty) and whose profit passes the profit filter.
FilterIsLiteralSubstring ==
    LET keep(r) == Kept(r, search, filter_profit)
    IN  df_filtered = SelectSeq(fetch_books_df, keep)

\* C9: the exported file has a header of exactly the six columns display index,
\* id, title, cost, price, profit, followed by one line for every row of the
\* table in ascending-id order.
ExportHasSixColumns ==
    download.kind = "csv" =>
        /\ download.data.header = DisplayColumns
        /\ Len(download.data.lines) = Len(fetch_books_df)
        /\ \A i \in 1..Len(fetch_books_df) :
              \E j \in 1..Len(download.data.lines[i]) :
                  download.data.lines[i][j] = fetch_books_df[i].id

\* |profit| of row i of the frame
Magnitude(df, i) == FAbs(FSub(df[i].price, df[i].cost))

\* the place of row i when the rows are sorted by descending |profit| and rows
\* of equal |profit| keep the order of the table
StablePlace(df, i) ==
    1 + Cardinality({ j \in 1..Len(df) : FLess(Magnitude(df, i), Magnitude(df, j)) })
      + Cardinality({ j \in 1..(i - 1) : Magnitude(df, j) = Magnitude(df, i) })

RECURSIVE BSumFrom(_, _)
BSumFrom(s, i) == IF i > Len(s) THEN BZero ELSE BAdd(s[i].mag, BSumFrom(s, i + 1))

=============================================================================
